---------------------------- MODULE Spec2Model ----------------------------
(***************************************************************************)
(* Model of src/app.py: a Flask task manager over MySQL.                   *)
(*                                                                         *)
(* One action per HTTP handler; a handler runs to completion in one step   *)
(* (its own statements, the audit() call and the webhook notification).    *)
(* Two things are followed statement by statement across worker threads:   *)
(* register(), between its SELECT and its INSERT, and the pooled           *)
(* connections a handler and audit() take and give back.                   *)
(* Text the code trims, lower-cases or splits is a sequence of             *)
(* one-character strings, so that the conversions are computed.  Python's  *)
(* None / an absent form field is the empty set, a present value v is {v}. *)
(* MySQL runs in its default strict mode: a value outside an ENUM, a       *)
(* duplicate key or a broken foreign key makes execute() raise.            *)
(***************************************************************************)
EXTENDS Integers, Sequences, FiniteSets, TLC

\* ------------------------------------------------------------------ bounds

\* Highest AUTO_INCREMENT id handed out per table in a checked run.
MaxTareas == 2
MaxTags == 2
MaxComentarios == 1
MaxAdjuntos == 1
\* Most rows of auditoria in a checked run.
MaxAuditoria == 1
\* Most tasks stored when the listing is read.
MaxListado == 6
\* Worker threads that serve requests at the same time.
MaxThreads == 2
\* Most rows of usuarios in a checked run.
MaxUsuarios == 3

\* ------------------------------------------------------------------ values

None == {}
Some(v) == {v}
The(o) == CHOOSE v \in o : TRUE

\* dict.get(key, default) on a value that is None when the key is absent
Get(o, default) == IF o = None THEN default ELSE The(o)

EmptyDict == [k \in {} |-> 0]

\* str.strip(): leading and trailing whitespace removed
IsSpace(c) == c \in {" ", "\t", "\n"}

RECURSIVE LStrip(_)
LStrip(s) == IF s # <<>> /\ IsSpace(Head(s)) THEN LStrip(Tail(s)) ELSE s

RECURSIVE RStrip(_)
RStrip(s) == IF s # <<>> /\ IsSpace(s[Len(s)]) THEN RStrip(SubSeq(s, 1, Len(s) - 1)) ELSE s

StripNothing(s) == s

Strip(s) == RStrip(LStrip(s))

\* str.lower(), on the letters the inputs use
LowerChar(c) ==
    CASE c = "A" -> "a"
      [] c = "B" -> "b"
      [] c = "D" -> "d"
      [] c = "E" -> "e"
      [] c = "F" -> "f"
      [] c = "P" -> "p"
      [] c = "T" -> "t"
      [] c = "X" -> "x"
      [] OTHER -> c

Lower(s) == [i \in DOMAIN s |-> LowerChar(s[i])]

\* utf8mb4_unicode_ci compares without case and without trailing spaces
RECURSIVE RTrimSpaces(_)
RTrimSpaces(s) == IF s # <<>> /\ s[Len(s)] = " " THEN RTrimSpaces(SubSeq(s, 1, Len(s) - 1)) ELSE s

CollationEq(a, b) == Lower(RTrimSpaces(a)) = Lower(RTrimSpaces(b))

\* ------------------------------------------------------------------ config

\* src/app.py:34-35, both webhooks configured
N8N_WEBHOOK_TASK_MUTATION == "http://n8n/task-mutation"
N8N_WEBHOOK_STATUS_CHANGE == "http://n8n/status-change"

\* src/app.py:40, the default allow-list
ALLOWED_EXT ==
    { <<"p","n","g">>, <<"j","p","g">>, <<"j","p","e","g">>, <<"p","d","f">>,
      <<"d","o","c">>, <<"d","o","c","x">>, <<"x","l","s">>, <<"x","l","s","x">>,
      <<"t","x","t">> }

\* the ENUM columns of tareas
Estados == {"pendiente", "en_progreso", "completada"}
Prioridades == {"baja", "media", "alta", "critica"}

\* the account crear_esquema_completo seeds
AdminEmail == <<"a","d","m","i","n","@","e","x","a","m","p","l","e",".","c","o","m">>
AdminPassword == "admin123"

generate_password_hash(password) == <<"pbkdf2", password>>
check_password_hash(pwhash, password) == pwhash = generate_password_hash(password)

\* ------------------------------------------------------------------ state

VARIABLES
    usuarios,              \* table usuarios
    tareas,                \* table tareas
    tareas_auto_inc,       \* its next AUTO_INCREMENT id
    tags,                  \* table tags
    tags_auto_inc,
    tarea_tags,            \* table tarea_tags, rows <<tarea_id, tag_id>>
    comentarios,           \* table comentarios
    comentarios_auto_inc,
    adjuntos,              \* table adjuntos
    adjuntos_auto_inc,
    auditoria,             \* table auditoria, in insertion order
    files,                 \* the files in UPLOAD_FOLDER: name -> size
    session,               \* the browser's Flask session (a dict)
    resp,                  \* the response to the last request
    outbox,                \* the webhook posts the last request started
    API_KEY,               \* the key read from the environment at start-up
    pool_out,              \* connections of the pool that are checked out
    requests               \* per worker thread, the request it is in the middle of

tables == <<usuarios, tareas, tareas_auto_inc, tags, tags_auto_inc, tarea_tags,
            comentarios, comentarios_auto_inc, adjuntos, adjuntos_auto_inc>>
stored == <<tables, auditoria, files>>
\* what a handler that runs to completion in one step leaves as it was
running == <<API_KEY, pool_out, requests>>
vars == <<stored, session, resp, outbox, running>>

Threads == 1..MaxThreads
Idle == [pc |-> "idle"]


\* ------------------------------------------------------------------ start

\* crear_esquema_completo: empty tables and the seeded administrator
SeedAdmin ==
    [id |-> 1, nombre |-> <<"A", "d", "m", "i", "n">>, email |-> AdminEmail,
     password_hash |-> generate_password_hash(AdminPassword),
     rol |-> "admin", activo |-> 1]

NoResponse == [status |-> 0, location |-> "", flash |-> ""]

Init ==
    /\ usuarios = {SeedAdmin}
    /\ tareas = {}
    /\ tareas_auto_inc = 1
    /\ tags = {}
    /\ tags_auto_inc = 1
    /\ tarea_tags = {}
    /\ comentarios = {}
    /\ comentarios_auto_inc = 1
    /\ adjuntos = {}
    /\ adjuntos_auto_inc = 1
    /\ auditoria = <<>>
    /\ files = EmptyDict
    /\ session = EmptyDict
    /\ resp = NoResponse
    /\ outbox = {}
    /\ API_KEY = ""
    /\ pool_out = 0
    /\ requests = [t \in Threads |-> Idle]

\* ------------------------------------------------------------------ utils

\* session.get(key)
session_get(ses, key) == IF key \in DOMAIN ses THEN Some(ses[key]) ELSE None

current_user_id(ses) == session_get(ses, "user_id")

\* Python truth of an Optional[int]
Truthy(o) == o # None /\ The(o) # 0

redirect(endpoint, msg) == [status |-> 302, location |-> endpoint, flash |-> msg]
render_template(name) == [status |-> 200, location |-> name, flash |-> ""]
\* Flask's answer when a handler raises
InternalServerError == [status |-> 500, location |-> "", flash |-> ""]

\* a request that ends before it touches the database, the disk or the session
Answer(r) ==
    /\ resp' = r
    /\ outbox' = {}
    /\ UNCHANGED <<stored, session>>

login_required_open(ses, body) == body

login_required(ses, body) ==
    IF ~Truthy(current_user_id(ses))
    THEN Answer(redirect("login", "Debe iniciar sesion."))
    ELSE body

notify_task_mutation(action, data) ==
    IF N8N_WEBHOOK_TASK_MUTATION # ""
    THEN {[url |-> N8N_WEBHOOK_TASK_MUTATION, action |-> action, task |-> data]}
    ELSE {}

notify_status_change(task_id, new_status) ==
    IF N8N_WEBHOOK_STATUS_CHANGE # ""
    THEN {[url |-> N8N_WEBHOOK_STATUS_CHANGE, id |-> task_id, estado |-> new_status]}
    ELSE {}

\* What the pool, the database and the clock do during one request.  conn:
\* get_conn() in the handler returns a connection.  audit: inside audit(), "ok"
\* (a connection and a successful INSERT), "no_conn" (get_conn() returns None)
\* or "insert_raises" (execute() raises).  tick: CURRENT_TIMESTAMP, which counts
\* whole seconds, has moved on since the newest stored task was inserted.
AuditEnv == {"ok", "no_conn", "insert_raises"}
Envs ==
    {[conn |-> FALSE, audit |-> "no_conn", tick |-> TRUE]}
        \cup {[conn |-> TRUE, audit |-> a, tick |-> TRUE] : a \in AuditEnv}
\* the same within the second of the newest stored task
EnvsMismoSegundo == {[e EXCEPT !.tick = FALSE] : e \in Envs}
\* the same with the audit write failing throughout
EnvsAuditDown == {e \in Envs : e.audit # "ok"}

audit_row(ses, accion, entidad, entidad_id, detalle) ==
    [usuario_id |-> current_user_id(ses), accion |-> accion, entidad |-> entidad,
     entidad_id |-> entidad_id, detalle |-> detalle]

audit_unguarded(ses, accion, entidad, entidad_id, detalle, aud) ==
    [rows |-> IF aud = "ok"
              THEN Append(auditoria, audit_row(ses, accion, entidad, entidad_id, detalle))
              ELSE auditoria,
     raised |-> aud = "insert_raises"]

\* audit(): the rows of auditoria afterwards, and whether it raised to its caller
audit(ses, accion, entidad, entidad_id, detalle, aud) ==
    [rows |-> IF aud = "ok"
              THEN Append(auditoria, audit_row(ses, accion, entidad, entidad_id, detalle))
              ELSE auditoria,
     raised |-> FALSE]

\* The tail of a handler whose statement is committed: the audit write, then
\* the webhook and the flash; an exception out of audit() skips both.
Finish(a, ok, posts) ==
    /\ Len(a.rows) <= MaxAuditoria
    /\ auditoria' = a.rows
    /\ resp' = IF a.raised THEN InternalServerError ELSE ok
    /\ outbox' = IF a.raised THEN {} ELSE posts

\* ------------------------------------------------------------------ auth

login(method, form, env) ==
    IF method = "GET" THEN Answer(render_template("login.html"))
    ELSE
    LET email == Lower(Strip(Get(form.email, <<>>)))
        password == Get(form.password, "")
        found == {u \in usuarios : u.email = email /\ u.activo = 1}
    IN  IF ~env.conn THEN Answer(redirect("login", "Error de conexion"))
        ELSE IF found = {} \/ ~check_password_hash(The(found).password_hash, password)
        THEN Answer(redirect("login", "Credenciales invalidas"))
        ELSE
        LET u == The(found)
            ses == [user_id |-> u.id, user_email |-> u.email,
                    user_name |-> u.nombre, user_role |-> u.rol]
        IN  /\ session' = ses
            /\ Finish(audit(ses, "login", "usuario", u.id, [email |-> email], env.audit),
                      redirect("index", ""), {})
            /\ UNCHANGED <<tables, files>>

logout(env) ==
    LET uid == current_user_id(session)
    IN  /\ session' = EmptyDict
        /\ IF Truthy(uid)
           THEN Finish(audit(EmptyDict, "logout", "usuario", The(uid), EmptyDict, env.audit),
                       redirect("login", "Sesion cerrada"), {})
           ELSE /\ resp' = redirect("login", "Sesion cerrada")
                /\ outbox' = {}
                /\ UNCHANGED auditoria
        /\ UNCHANGED <<tables, files>>

\* email VARCHAR(190) NOT NULL UNIQUE: a row of that email is stored
unique_email_unenforced(email) == FALSE

unique_email_taken(email) == \E u \in usuarios : CollationEq(u.email, email)

\* the next AUTO_INCREMENT id of usuarios, whose rows are never deleted
usuarios_auto_inc == 1 + Cardinality(usuarios)

\* register() up to its SELECT 1 FROM usuarios WHERE email=%s, on worker thread t:
\* it answers, or goes on to its INSERT with the form it read
register_select(t, method, form, env) ==
    /\ requests[t] = Idle
    /\ UNCHANGED <<API_KEY, pool_out>>
    /\ IF method = "GET" THEN Answer(render_template("register.html")) /\ UNCHANGED requests
       ELSE
       LET nombre == Strip(Get(form.nombre, <<>>))
           email == Lower(Strip(Get(form.email, <<>>)))
           password == Get(form.password, "")
       IN  IF nombre = <<>> \/ email = <<>> \/ password = ""
           THEN Answer(redirect("register", "Completa todos los campos")) /\ UNCHANGED requests
           ELSE IF ~env.conn
           THEN Answer(redirect("register", "Error de conexion")) /\ UNCHANGED requests
           ELSE IF \E u \in usuarios : CollationEq(u.email, email)
           THEN Answer(redirect("register", "Email ya registrado")) /\ UNCHANGED requests
           ELSE /\ requests' = [requests EXCEPT ![t] =
                                  [pc |-> "register_insert", nombre |-> nombre,
                                   email |-> email, password |-> password]]
                /\ UNCHANGED <<stored, session, resp, outbox>>

\* register() from its INSERT INTO usuarios to its answer: the unique key makes
\* execute() raise when a row of that email was stored meanwhile
register_insert(t) ==
    /\ requests[t].pc = "register_insert"
    /\ requests' = [requests EXCEPT ![t] = Idle]
    /\ outbox' = {}
    /\ UNCHANGED <<API_KEY, pool_out, session, auditoria, files, tareas, tareas_auto_inc, tags,
                   tags_auto_inc, tarea_tags, comentarios, comentarios_auto_inc, adjuntos,
                   adjuntos_auto_inc>>
    /\ IF unique_email_taken(requests[t].email)
       THEN /\ resp' = InternalServerError
            /\ UNCHANGED usuarios
       ELSE /\ usuarios_auto_inc <= MaxUsuarios
            /\ usuarios' = usuarios \cup
                 {[id |-> usuarios_auto_inc, nombre |-> requests[t].nombre,
                   email |-> requests[t].email,
                   password_hash |-> generate_password_hash(requests[t].password),
                   rol |-> "miembro", activo |-> 1]}
            /\ resp' = redirect("login", "Cuenta creada. Ahora inicia sesion.")

\* ------------------------------------------------------------------ tareas

\* x or None
OrNoneText(o) == IF o = None \/ The(o) = <<>> THEN None ELSE o
OrNoneStr(o) == IF o = None \/ The(o) = "" THEN None ELSE o

UserIds == {u.id : u \in usuarios}
TareaIds == {t.id : t \in tareas}

\* the integer MySQL reads from a form's asignada_a
FormInt(s) == CASE s = "1" -> 1 [] s = "2" -> 2 [] OTHER -> 7

AsignadaCol(asignada_a) == IF asignada_a = None THEN None ELSE Some(FormInt(The(asignada_a)))

\* execute() raises on a value outside an ENUM or an assignee who is no user
TareaValuesRaise(prioridad, asignada_a) ==
    \/ prioridad \notin Prioridades
    \/ asignada_a # None /\ FormInt(The(asignada_a)) \notin UserIds

\* fecha_creacion TIMESTAMP DEFAULT CURRENT_TIMESTAMP: the seconds are counted from
\* the first stored task; only their order and their ties are read
UltimaFecha == IF tareas = {} THEN 0 ELSE CHOOSE f \in {t.fecha_creacion : t \in tareas} :
                                            \A t \in tareas : t.fecha_creacion <= f
CURRENT_TIMESTAMP(tick) == IF tick \/ tareas = {} THEN UltimaFecha + 1 ELSE UltimaFecha

tarea_nueva(form, env) ==
    login_required(session,
    LET titulo == Strip(Get(form.titulo, <<>>))
        descripcion == OrNoneText(Some(Strip(Get(form.descripcion, <<>>))))
        fecha_vencimiento == OrNoneStr(form.fecha_vencimiento)
        prioridad == Get(form.prioridad, "media")
        asignada_a == OrNoneStr(form.asignada_a)
        tarea_id == tareas_auto_inc
    IN  IF titulo = <<>> THEN Answer(redirect("index", "El titulo es obligatorio"))
        ELSE IF ~env.conn THEN Answer(redirect("index", "Error de conexion"))
        ELSE IF TareaValuesRaise(prioridad, asignada_a) THEN Answer(InternalServerError)
        ELSE
            /\ tarea_id <= MaxTareas
            /\ tareas' = tareas \cup
                 {[id |-> tarea_id, titulo |-> titulo, descripcion |-> descripcion,
                   estado |-> "pendiente", prioridad |-> prioridad,
                   fecha_creacion |-> CURRENT_TIMESTAMP(env.tick),
                   fecha_vencimiento |-> fecha_vencimiento,
                   creada_por |-> current_user_id(session),
                   asignada_a |-> AsignadaCol(asignada_a)]}
            /\ tareas_auto_inc' = tarea_id + 1
            /\ Finish(audit(session, "create", "tarea", tarea_id, [titulo |-> titulo], env.audit),
                      redirect("index", "Tarea creada"),
                      notify_task_mutation("create", [id |-> tarea_id, titulo |-> titulo]))
            /\ UNCHANGED <<usuarios, tags, tags_auto_inc, tarea_tags, comentarios,
                           comentarios_auto_inc, adjuntos, adjuntos_auto_inc, files, session>>)

\* the states a request may set
ValidEstadosLax == {"pendiente", "en_progreso", "completada", "archivada"}

ValidEstados == {"pendiente", "en_progreso", "completada"}

tarea_editar(id, form, env) ==
    login_required(session,
    LET titulo == Strip(Get(form.titulo, <<>>))
        descripcion == OrNoneText(Some(Strip(Get(form.descripcion, <<>>))))
        estado == Get(form.estado, "pendiente")
        prioridad == Get(form.prioridad, "media")
        fecha_vencimiento == OrNoneStr(form.fecha_vencimiento)
        asignada_a == OrNoneStr(form.asignada_a)
    IN  IF estado \notin ValidEstados
        THEN Answer(redirect("tarea_detalle", "Estado invalido"))
        ELSE IF ~env.conn THEN Answer(redirect("tarea_detalle", "Error de conexion"))
        ELSE IF id \in TareaIds /\ (estado \notin Estados \/ TareaValuesRaise(prioridad, asignada_a))
        THEN Answer(InternalServerError)
        ELSE
            /\ tareas' =
                 {IF t.id = id
                  THEN [t EXCEPT !.titulo = titulo, !.descripcion = descripcion,
                                 !.estado = estado, !.prioridad = prioridad,
                                 !.fecha_vencimiento = fecha_vencimiento,
                                 !.asignada_a = AsignadaCol(asignada_a)]
                  ELSE t : t \in tareas}
            /\ Finish(audit(session, "update", "tarea", id,
                            [estado |-> estado, prioridad |-> prioridad], env.audit),
                      redirect("tarea_detalle", "Cambios guardados"),
                      notify_task_mutation("update",
                            [id |-> id, estado |-> estado, prioridad |-> prioridad]))
            /\ UNCHANGED <<usuarios, tareas_auto_inc, tags, tags_auto_inc, tarea_tags,
                           comentarios, comentarios_auto_inc, adjuntos, adjuntos_auto_inc,
                           files, session>>)

tarea_cambiar_estado(id, estado, env) ==
    login_required(session,
    IF estado \notin ValidEstados
    THEN Answer(redirect("tarea_detalle", "Estado invalido"))
    ELSE IF ~env.conn THEN Answer(redirect("tarea_detalle", "Error de conexion"))
    ELSE IF id \in TareaIds /\ estado \notin Estados THEN Answer(InternalServerError)
    ELSE
        /\ tareas' = {IF t.id = id THEN [t EXCEPT !.estado = estado] ELSE t : t \in tareas}
        /\ Finish(audit(session, "status", "tarea", id, [estado |-> estado], env.audit),
                  redirect("tarea_detalle", "Estado actualizado"),
                  notify_status_change(id, estado))
        /\ UNCHANGED <<usuarios, tareas_auto_inc, tags, tags_auto_inc, tarea_tags,
                       comentarios, comentarios_auto_inc, adjuntos, adjuntos_auto_inc,
                       files, session>>)

\* DELETE FROM tareas WHERE id=...: the row, and by ON DELETE CASCADE the rows of
\* tarea_tags, comentarios and adjuntos that reference it
delete_tarea_no_cascade(id) ==
    /\ tareas' = {t \in tareas : t.id # id}
    /\ UNCHANGED <<tarea_tags, comentarios, adjuntos>>

delete_tarea(id) ==
    /\ tareas' = {t \in tareas : t.id # id}
    /\ tarea_tags' = {l \in tarea_tags : l[1] # id}
    /\ comentarios' = {c \in comentarios : c.tarea_id # id}
    /\ adjuntos' = {a \in adjuntos : a.tarea_id # id}

tarea_eliminar(id, env) ==
    login_required(session,
    IF ~env.conn THEN Answer(redirect("index", "Error de conexion"))
    ELSE
        /\ delete_tarea(id)
        /\ Finish(audit(session, "delete", "tarea", id, EmptyDict, env.audit),
                  redirect("index", "Tarea eliminada"),
                  notify_task_mutation("delete", [id |-> id]))
        /\ UNCHANGED <<usuarios, tareas_auto_inc, tags, tags_auto_inc,
                       comentarios_auto_inc, adjuntos_auto_inc, files, session>>)

\* ------------------------------------------------------------------ tags

select_tag_none(nombre) == {}

\* SELECT id FROM tags WHERE nombre=%s
select_tag(nombre) == {t \in tags : CollationEq(t.nombre, nombre)}

\* INSERT IGNORE INTO tarea_tags: a row whose key exists or whose task does not
\* exist is skipped with a warning
insert_ignore_tarea_tags(id, tag_id) ==
    IF id \in TareaIds THEN tarea_tags \cup {<<id, tag_id>>} ELSE tarea_tags

tarea_agregar_tag(id, form, env) ==
    login_required(session,
    LET nombre == Lower(Strip(Get(form.tag, <<>>)))
        r == select_tag(nombre)
        tag_id == IF r # {} THEN The(r).id ELSE tags_auto_inc
    IN  IF nombre = <<>> THEN Answer(redirect("tarea_detalle", ""))
        ELSE IF ~env.conn THEN Answer(redirect("tarea_detalle", ""))
        ELSE IF r = {} /\ (\E t \in tags : CollationEq(t.nombre, nombre))
        THEN Answer(InternalServerError)
        ELSE
            /\ IF r # {}
               THEN UNCHANGED <<tags, tags_auto_inc>>
               ELSE /\ tag_id <= MaxTags
                    /\ tags' = tags \cup {[id |-> tag_id, nombre |-> nombre]}
                    /\ tags_auto_inc' = tag_id + 1
            /\ tarea_tags' = insert_ignore_tarea_tags(id, tag_id)
            /\ Finish(audit(session, "update", "tarea", id, [tag_add |-> nombre], env.audit),
                      redirect("tarea_detalle", "Tag agregado"), {})
            /\ UNCHANGED <<usuarios, tareas, tareas_auto_inc, comentarios,
                           comentarios_auto_inc, adjuntos, adjuntos_auto_inc, files, session>>)

delete_tarea_tag_any_task(id, tag_id) == {l \in tarea_tags : l[2] # tag_id}

\* DELETE FROM tarea_tags WHERE tarea_id=%s AND tag_id=%s
delete_tarea_tag(id, tag_id) == {l \in tarea_tags : ~(l[1] = id /\ l[2] = tag_id)}

tarea_quitar_tag(id, tag_id, env) ==
    login_required(session,
    IF ~env.conn THEN Answer(redirect("tarea_detalle", ""))
    ELSE
        /\ tarea_tags' = delete_tarea_tag(id, tag_id)
        /\ Finish(audit(session, "update", "tarea", id, [tag_remove |-> tag_id], env.audit),
                  redirect("tarea_detalle", "Tag quitado"), {})
        /\ UNCHANGED <<usuarios, tareas, tareas_auto_inc, tags, tags_auto_inc, comentarios,
                       comentarios_auto_inc, adjuntos, adjuntos_auto_inc, files, session>>)

\* ------------------------------------------------------------------ comentarios

\* contenido[:120]
AuditContenidoLen == 120
Prefix(s, n) == SubSeq(s, 1, IF Len(s) < n THEN Len(s) ELSE n)

tarea_comentar(id, form, env) ==
    login_required(session,
    LET contenido == Strip(Get(form.contenido, <<>>))
        comentario_id == comentarios_auto_inc
    IN  IF contenido = <<>> THEN Answer(redirect("tarea_detalle", "Escribe un comentario"))
        ELSE IF ~env.conn THEN Answer(redirect("tarea_detalle", "Error de conexion"))
        ELSE IF id \notin TareaIds THEN Answer(InternalServerError)
        ELSE
            /\ comentario_id <= MaxComentarios
            /\ comentarios' = comentarios \cup
                 {[id |-> comentario_id, tarea_id |-> id,
                   usuario_id |-> current_user_id(session), contenido |-> contenido]}
            /\ comentarios_auto_inc' = comentario_id + 1
            /\ Finish(audit(session, "comment", "tarea", id,
                            [contenido |-> Prefix(contenido, AuditContenidoLen)], env.audit),
                      redirect("tarea_detalle", "Comentario agregado"), {})
            /\ UNCHANGED <<usuarios, tareas, tareas_auto_inc, tags, tags_auto_inc, tarea_tags,
                           adjuntos, adjuntos_auto_inc, files, session>>)

\* ------------------------------------------------------------------ adjuntos

FilenameChars ==
    { "a","b","c","d","e","f","g","h","i","j","k","l","m","n","o","p","q","r","s","t",
      "u","v","w","x","y","z","A","B","C","D","E","F","G","H","I","J","K","L","M","N",
      "O","P","Q","R","S","T","U","V","W","X","Y","Z","0","1","2","3","4","5","6","7",
      "8","9","_",".","-" }

IsFilenameChar(c) == c \in FilenameChars

\* "_".join(s.split()): runs of whitespace become one "_", none at the ends
RECURSIVE JoinWords(_)
JoinWords(s) ==
    IF s = <<>> THEN <<>>
    ELSE IF ~IsSpace(Head(s)) THEN <<Head(s)>> \o JoinWords(Tail(s))
    ELSE IF Tail(s) # <<>> /\ IsSpace(Head(Tail(s))) THEN JoinWords(Tail(s))
    ELSE <<"_">> \o JoinWords(Tail(s))

\* str.strip("._")
RECURSIVE StripDots(_)
StripDots(s) ==
    IF s # <<>> /\ Head(s) \in {".", "_"} THEN StripDots(Tail(s))
    ELSE IF s # <<>> /\ s[Len(s)] \in {".", "_"} THEN StripDots(SubSeq(s, 1, Len(s) - 1))
    ELSE s

\* werkzeug's secure_filename: path separators to spaces, words joined by "_",
\* only [A-Za-z0-9_.-] kept, dots and underscores stripped from both ends
secure_filename(filename) ==
    LET spaced == [i \in DOMAIN filename |-> IF filename[i] = "/" THEN " " ELSE filename[i]]
    IN  StripDots(SelectSeq(JoinWords(Strip(spaced)), IsFilenameChar))

\* filename.rsplit(".", 1)[1]
Dots(s) == {i \in DOMAIN s : s[i] = "."}
LastDot(s) == CHOOSE i \in Dots(s) : \A j \in Dots(s) : j <= i
FirstDot(s) == CHOOSE i \in Dots(s) : \A j \in Dots(s) : i <= j

allowed_file_first_ext(filename) ==
    IF Dots(filename) = {} THEN FALSE
    ELSE LET rest == SubSeq(filename, FirstDot(filename) + 1, Len(filename))
             ext == IF Dots(rest) = {} THEN rest ELSE SubSeq(rest, 1, FirstDot(rest) - 1)
         IN  Lower(ext) \in ALLOWED_EXT

allowed_file(filename) ==
    IF Dots(filename) = {} THEN FALSE
    ELSE LET ext == Lower(SubSeq(filename, LastDot(filename) + 1, Len(filename)))
         IN  ext \in ALLOWED_EXT

\* file.save(ruta): the file is created or overwritten
save(ruta, size) == [p \in DOMAIN files \cup {ruta} |-> IF p = ruta THEN size ELSE files[p]]

\* archivo: None, or the uploaded file [filename, size]
tarea_adjuntar(id, archivo, env) ==
    login_required(session,
    IF archivo = None \/ The(archivo).filename = <<>>
    THEN Answer(redirect("tarea_detalle", "Selecciona un archivo"))
    ELSE
    LET file == The(archivo)
        filename == secure_filename(file.filename)
        ruta == <<id, filename>>
        tam == file.size
        adjunto_id == adjuntos_auto_inc
    IN  IF ~allowed_file(filename)
        THEN Answer(redirect("tarea_detalle", "Tipo de archivo no permitido"))
        ELSE
            /\ files' = save(ruta, tam)
            /\ IF ~env.conn
               THEN /\ resp' = redirect("tarea_detalle", "Error de conexion")
                    /\ outbox' = {}
                    /\ UNCHANGED <<adjuntos, adjuntos_auto_inc, auditoria>>
               ELSE IF id \notin TareaIds
               THEN /\ resp' = InternalServerError
                    /\ outbox' = {}
                    /\ UNCHANGED <<adjuntos, adjuntos_auto_inc, auditoria>>
               ELSE /\ adjunto_id <= MaxAdjuntos
                    /\ adjuntos' = adjuntos \cup
                         {[id |-> adjunto_id, tarea_id |-> id, nombre_archivo |-> filename,
                           ruta |-> ruta, tamano |-> tam]}
                    /\ adjuntos_auto_inc' = adjunto_id + 1
                    /\ Finish(audit(session, "attach", "tarea", id,
                                    [archivo |-> filename, tamano |-> tam], env.audit),
                              redirect("tarea_detalle", "Archivo adjuntado"), {})
            /\ UNCHANGED <<usuarios, tareas, tareas_auto_inc, tags, tags_auto_inc, tarea_tags,
                           comentarios, comentarios_auto_inc, session>>)

\* ------------------------------------------------------------------ listado

Digits == {"0", "1", "2", "3", "4", "5", "6", "7", "8", "9"}
DigitValue(c) ==
    CASE c = "0" -> 0 [] c = "1" -> 1 [] c = "2" -> 2 [] c = "3" -> 3 [] c = "4" -> 4
      [] c = "5" -> 5 [] c = "6" -> 6 [] c = "7" -> 7 [] c = "8" -> 8 [] c = "9" -> 9

RECURSIVE DigitsValue(_)
DigitsValue(s) ==
    IF s = <<>> THEN 0
    ELSE 10 * DigitsValue(SubSeq(s, 1, Len(s) - 1)) + DigitValue(s[Len(s)])

\* int(request.args.get(key, default)): the default when the key is absent, the
\* number a signed decimal text stands for, None when int() raises ValueError
int(o, default) ==
    IF o = None THEN Some(default)
    ELSE LET s == Strip(The(o))
             signed == s # <<>> /\ Head(s) \in {"+", "-"}
             body == IF signed THEN Tail(s) ELSE s
         IN  IF body = <<>> \/ \E i \in DOMAIN body : body[i] \notin Digits THEN None
             ELSE IF signed /\ Head(s) = "-" THEN Some(0 - DigitsValue(body))
             ELSE Some(DigitsValue(body))

Min(a, b) == IF a <= b THEN a ELSE b
Max(a, b) == IF a >= b THEN a ELSE b

clamp(n, a, b) == Max(a, Min(b, n))

\* None when one of the two int() calls raises
paginate_params(args) ==
    LET page == int(args.page, 1)
        per_page == int(args.per_page, 12)
    IN  IF page = None \/ per_page = None THEN None
        ELSE LET p == clamp(The(page), 1, 10000)
                 pp == clamp(The(per_page), 5, 100)
             IN  Some([page |-> p, per_page |-> pp, offset |-> (p - 1) * pp])

\* the text of an ENUM value
EnumText(v) ==
    CASE v = "pendiente" -> <<"p","e","n","d","i","e","n","t","e">>
      [] v = "en_progreso" -> <<"e","n","_","p","r","o","g","r","e","s","o">>
      [] v = "completada" -> <<"c","o","m","p","l","e","t","a","d","a">>
      [] v = "baja" -> <<"b","a","j","a">>
      [] v = "media" -> <<"m","e","d","i","a">>
      [] v = "alta" -> <<"a","l","t","a">>
      [] v = "critica" -> <<"c","r","i","t","i","c","a">>

\* text LIKE pattern under utf8mb4_unicode_ci: % any run, _ any one character
RECURSIVE Like(_, _)
Like(text, pattern) ==
    IF pattern = <<>> THEN text = <<>>
    ELSE IF Head(pattern) = "%"
    THEN Like(text, Tail(pattern)) \/ (text # <<>> /\ Like(Tail(text), pattern))
    ELSE /\ text # <<>>
         /\ Head(pattern) = "_" \/ LowerChar(Head(pattern)) = LowerChar(Head(text))
         /\ Like(Tail(text), Tail(pattern))

\* the number MySQL reads from a text compared with an INT column: its leading digits
RECURSIVE LeadingDigits(_)
LeadingDigits(s) ==
    IF s # <<>> /\ Head(s) \in Digits THEN <<Head(s)>> \o LeadingDigits(Tail(s)) ELSE <<>>
MySQLNumber(s) == DigitsValue(LeadingDigits(LStrip(s)))

\* WHERE 1=1 [AND estado=..] [AND prioridad=..] [AND asignada_a=..] [AND (titulo LIKE .. OR descripcion LIKE ..)]
Where(estado, prioridad, asignada, q) ==
    {t \in tareas :
        /\ estado # <<>> => CollationEq(EnumText(t.estado), estado)
        /\ prioridad # <<>> => CollationEq(EnumText(t.prioridad), prioridad)
        /\ asignada # <<>> => t.asignada_a = Some(MySQLNumber(asignada))
        /\ q # <<>> =>
             \/ Like(t.titulo, <<"%">> \o q \o <<"%">>)
             \/ t.descripcion # None /\ Like(The(t.descripcion), <<"%">> \o q \o <<"%">>)}

\* ORDER BY fecha_creacion DESC: every order of the rows in which no row comes
\* before a newer one; rows of the same second come in any order
RECURSIVE OrderByFechaCreacionDesc(_)
OrderByFechaCreacionDesc(rows) ==
    IF rows = {} THEN {<<>>}
    ELSE UNION {{<<t>> \o rest : rest \in OrderByFechaCreacionDesc(rows \ {t})} :
                  t \in {r \in rows : \A o \in rows : o.fecha_creacion <= r.fecha_creacion}}

LimitSinOffset(seq, per_page, offset) == SubSeq(seq, 1, Min(Len(seq), per_page))

\* LIMIT per_page OFFSET offset
Limit(seq, per_page, offset) == SubSeq(seq, offset + 1, Min(Len(seq), offset + per_page))

\* strftime("%d/%m/%Y %H:%M"): the seconds are dropped
strftime(fecha) == fecha \div 60

\* t.*, u.nombre AS asignada_a_nombre ... LEFT JOIN usuarios u ON u.id=t.asignada_a
IndexRow(t) ==
    [id |-> t.id, titulo |-> t.titulo, descripcion |-> t.descripcion, estado |-> t.estado,
     prioridad |-> t.prioridad, fecha_creacion |-> strftime(t.fecha_creacion),
     fecha_vencimiento |-> t.fecha_vencimiento, creada_por |-> t.creada_por,
     asignada_a |-> t.asignada_a,
     asignada_a_nombre |->
        IF t.asignada_a = None THEN None
        ELSE {u.nombre : u \in {v \in usuarios : v.id = The(t.asignada_a)}}]

\* SUM(estado='pendiente') ..., NULL over no row
Stats ==
    LET Sum(rows) == IF tareas = {} THEN None ELSE Some(Cardinality(rows))
    IN  [pend |-> Sum({t \in tareas : t.estado = "pendiente"}),
         prog |-> Sum({t \in tareas : t.estado = "en_progreso"}),
         comp |-> Sum({t \in tareas : t.estado = "completada"}),
         crit |-> Sum({t \in tareas : t.prioridad = "critica"}),
         alta |-> Sum({t \in tareas : t.prioridad = "alta"})]

\* args: the query string, each key None or its text
index(args, env) ==
    login_required(session,
    LET estado == Strip(Get(args.estado, <<>>))
        q == Strip(Get(args.q, <<>>))
        prioridad == Strip(Get(args.prioridad, <<>>))
        asignada == Strip(Get(args.asignada, <<>>))
        pp == paginate_params(args)
    IN  IF pp = None THEN Answer(InternalServerError)
        ELSE IF ~env.conn
        THEN Answer([status |-> 200, location |-> "index.html", flash |-> "Error de conexion",
                     tareas |-> <<>>, stats |-> EmptyDict])
        ELSE \E seq \in OrderByFechaCreacionDesc(Where(estado, prioridad, asignada, q)) :
               Answer([status |-> 200, location |-> "index.html", flash |-> "",
                       tareas |-> [i \in DOMAIN Limit(seq, The(pp).per_page, The(pp).offset) |->
                                     IndexRow(Limit(seq, The(pp).per_page, The(pp).offset)[i])],
                       stats |-> Stats,
                       page |-> The(pp).page, per_page |-> The(pp).per_page,
                       total |-> Cardinality(Where(estado, prioridad, asignada, q))]))

\* ------------------------------------------------------------------ api

\* jsonify(): a JSON array of a list, a JSON object of a dict
jsonify(kind, value, status) ==
    [status |-> status, location |-> "", flash |-> "", json |-> [kind |-> kind, value |-> value]]

\* (not API_KEY) or (request.headers.get("X-API-Key") == API_KEY)
api_auth_ok(headers) == API_KEY = "" \/ headers.X_API_Key = Some(API_KEY)

\* the 401 answer, or None
require_api_key(headers) ==
    IF ~api_auth_ok(headers) THEN Some(jsonify("object", [error |-> "unauthorized"], 401))
    ELSE None

api_tareas(headers, args, env) ==
    LET unauth == require_api_key(headers)
        q == Strip(Get(args.q, <<>>))
        estado == Strip(Get(args.estado, <<>>))
        prioridad == Strip(Get(args.prioridad, <<>>))
        pp == paginate_params(args)
    IN  IF unauth # None THEN Answer(The(unauth))
        ELSE IF pp = None THEN Answer(InternalServerError)
        ELSE IF ~env.conn THEN Answer(jsonify("array", <<>>, 200))
        ELSE \E seq \in OrderByFechaCreacionDesc(Where(estado, prioridad, <<>>, q)) :
               Answer(jsonify("array", Limit(seq, The(pp).per_page, The(pp).offset), 200))

\* ------------------------------------------------------------------ pool

\* What the statements of a handler do to the connection pool, statement by
\* statement, on each worker thread.  A request in progress is
\* [pc, handler, conn, cur, aconn, acur, raised]: conn and aconn say that the
\* handler and audit() hold a pooled connection, cur and acur that their
\* local variable cur is bound.  The rows the statements write are left out
\* here; the handlers above write them.

\* _build_pool: pool_size
pool_size == 10

\* the handlers followed here: two that write and call audit(), one that reads
PoolHandlers == {"tarea_nueva", "tarea_cambiar_estado", "adjunto_descargar"}

\* get_conn(): a connection, unless the pool is empty or the server is away
get_conn(env) == env.conn /\ pool_out < pool_size

Frame == UNCHANGED <<stored, session, outbox, API_KEY>>

\* conn = get_conn(); if not conn: ... return
handler_get_conn(t, handler, env) ==
    /\ requests[t] = Idle
    /\ Frame
    /\ IF get_conn(env)
       THEN /\ pool_out' = pool_out + 1
            /\ requests' = [requests EXCEPT ![t] =
                 [pc |-> "cursor", handler |-> handler, conn |-> TRUE, cur |-> FALSE,
                  aconn |-> FALSE, acur |-> FALSE, raised |-> FALSE]]
            /\ UNCHANGED resp
       ELSE /\ resp' = IF handler = "adjunto_descargar"
                       THEN [status |-> 404, location |-> "", flash |-> ""]
                       ELSE redirect("index", "Error de conexion")
            /\ UNCHANGED <<pool_out, requests>>

\* try: cur = conn.cursor()
handler_cursor(t, raises) ==
    /\ requests[t].pc = "cursor"
    /\ Frame
    /\ requests' = [requests EXCEPT ![t] =
         IF raises THEN [@ EXCEPT !.pc = "finally", !.raised = TRUE]
         ELSE [@ EXCEPT !.pc = "execute", !.cur = TRUE]]
    /\ UNCHANGED <<pool_out, resp>>

\* cur.execute(...); conn.commit(), or the SELECT and abort(404) / send of
\* adjunto_descargar
handler_execute(t, raises) ==
    /\ requests[t].pc = "execute"
    /\ Frame
    /\ requests' = [requests EXCEPT ![t] =
         IF raises THEN [@ EXCEPT !.pc = "finally", !.raised = TRUE]
         ELSE IF @.handler = "adjunto_descargar" THEN [@ EXCEPT !.pc = "finally"]
         ELSE [@ EXCEPT !.pc = "audit"]]
    /\ UNCHANGED <<pool_out, resp>>

\* audit(): conn = get_conn(); if not conn: return
audit_get_conn(t, env) ==
    /\ requests[t].pc = "audit"
    /\ Frame
    /\ IF get_conn(env)
       THEN /\ pool_out' = pool_out + 1
            /\ requests' = [requests EXCEPT ![t] = [@ EXCEPT !.pc = "audit_cursor", !.aconn = TRUE]]
       ELSE /\ requests' = [requests EXCEPT ![t] = [@ EXCEPT !.pc = "finally"]]
            /\ UNCHANGED pool_out
    /\ UNCHANGED resp

\* audit(): try: cur = conn.cursor()
audit_cursor(t, raises) ==
    /\ requests[t].pc = "audit_cursor"
    /\ Frame
    /\ requests' = [requests EXCEPT ![t] =
         IF raises THEN [@ EXCEPT !.pc = "audit_finally"]
         ELSE [@ EXCEPT !.pc = "audit_execute", !.acur = TRUE]]
    /\ UNCHANGED <<pool_out, resp>>

\* audit(): cur.execute(INSERT INTO auditoria ...); conn.commit(); except: log
audit_execute(t, raises) ==
    /\ requests[t].pc = "audit_execute"
    /\ Frame
    /\ requests' = [requests EXCEPT ![t] = [@ EXCEPT !.pc = "audit_finally"]]
    /\ UNCHANGED <<pool_out, resp>>

\* finally: try: cur.close(); conn.close() / except: pass.  With cur unbound,
\* cur.close() raises NameError, the except swallows it and conn.close() is not
\* reached: the connection is dropped without going back to the pool.
close_all(cur_bound) == IF cur_bound THEN pool_out - 1 ELSE pool_out

audit_finally(t) ==
    /\ requests[t].pc = "audit_finally"
    /\ Frame
    /\ pool_out' = close_all(requests[t].acur)
    /\ requests' = [requests EXCEPT ![t] = [@ EXCEPT !.pc = "finally", !.aconn = FALSE]]
    /\ UNCHANGED resp

\* the handler's finally, then its answer
handler_finally(t) ==
    /\ requests[t].pc = "finally"
    /\ Frame
    /\ pool_out' = close_all(requests[t].cur)
    /\ requests' = [requests EXCEPT ![t] = Idle]
    /\ resp' = IF requests[t].raised THEN InternalServerError
               ELSE IF requests[t].handler = "adjunto_descargar"
               THEN [status |-> 200, location |-> "", flash |-> ""]
               ELSE redirect("index", "")

\* ------------------------------------------------------------------ requests

LoginForm(e, p) == [email |-> e, password |-> p]
LoginForms ==
    { LoginForm(Some(AdminEmail), Some(AdminPassword)),
      LoginForm(Some(<<" ", "A">> \o Tail(AdminEmail) \o <<" ">>), Some(AdminPassword)),
      LoginForm(Some(AdminEmail), Some("guess")),
      LoginForm(Some(<<"x", "@", "x">>), Some(AdminPassword)),
      LoginForm(None, None) }

TareaForm(ti, d, es, pr, fv, asg) ==
    [titulo |-> ti, descripcion |-> d, estado |-> es, prioridad |-> pr,
     fecha_vencimiento |-> fv, asignada_a |-> asg]

\* the forms sent to /tarea/nueva (which reads no estado)
NuevaForms ==
    { TareaForm(None, None, None, None, None, None),
      TareaForm(Some(<<" ", "\t">>), Some(<<"d">>), None, Some("alta"), None, None),
      TareaForm(Some(<<" ", "a", " ">>), None, None, None, None, None),
      TareaForm(Some(<<"b">>), Some(<<"d", " ">>), None, Some("alta"), Some("2030-01-01"), Some("1")),
      TareaForm(Some(<<"a">>), Some(<<" ">>), None, Some("urgente"), Some(""), Some("")),
      TareaForm(Some(<<"a">>), None, None, None, None, Some("7")) }

\* the forms sent to /tarea/<id>/editar
EditarForms ==
    { TareaForm(None, None, None, None, None, None),
      TareaForm(Some(<<"a">>), Some(<<"d">>), Some("completada"), Some("alta"), Some("2030-01-01"), Some("1")),
      TareaForm(Some(<<"b">>), None, Some("archivada"), None, None, None) }

\* what the browser sends for an <input type=file>
Upload(name, size) == Some([filename |-> name, size |-> size])
Uploads ==
    { None,
      Upload(<<>>, 0),
      Upload(<<"a", ".", "P", "D", "F">>, 3),
      Upload(<<".", ".", "/", "a", ".", "P", "D", "F", ".">>, 3),
      Upload(<<"a", ".", "e", "x", "e">>, 3),
      Upload(<<"a", ".", "p", "d", "f", ".", "e", "x", "e">>, 3),
      Upload(<<".", "p", "d", "f">>, 3),
      Upload(<<"p", "d", "f">>, 3) }

TagForms ==
    { [tag |-> None], [tag |-> Some(<<" ">>)], [tag |-> Some(<<"a">>)],
      [tag |-> Some(<<" ", "A", " ">>)], [tag |-> Some(<<"b">>)] }

ComentarioForms == { [contenido |-> None], [contenido |-> Some(<<" ", "c", " ">>)] }

\* the query strings sent to /
IndexArgs(page, per_page, estado, prioridad, asignada, q) ==
    [page |-> page, per_page |-> per_page, estado |-> estado, prioridad |-> prioridad,
     asignada |-> asignada, q |-> q]
ListadoArgs ==
    { IndexArgs(None, None, None, None, None, None),
      IndexArgs(Some(<<"1">>), Some(<<"5">>), None, None, None, None),
      IndexArgs(Some(<<"2">>), Some(<<"5">>), None, None, None, None),
      IndexArgs(Some(<<"3">>), Some(<<"5">>), None, None, None, None),
      IndexArgs(Some(<<"0">>), Some(<<"1">>), None, None, None, None),
      IndexArgs(Some(<<"1", "0", "0", "0", "1">>), Some(<<"1", "0", "1">>), None, None, None, None),
      IndexArgs(Some(<<" ", "-", "2", " ">>), None, Some(<<>>), Some(<<>>), Some(<<>>), Some(<<>>)),
      IndexArgs(Some(<<"a", "b", "c">>), None, None, None, None, None),
      IndexArgs(None, Some(<<"5", "x">>), None, None, None, None),
      IndexArgs(None, Some(<<"5">>), Some(<<" ", "p","e","n","d","i","e","n","t","e", " ">>), None, None, None),
      IndexArgs(Some(<<"2">>), Some(<<"5">>), None, None, None, Some(<<"A">>)),
      IndexArgs(None, None, Some(<<"a","r","c","h","i","v","a","d","a">>), None, None, None),
      IndexArgs(None, None, None, Some(<<"a","l","t","a">>), Some(<<"1">>), Some(<<"b", "_", "%">>)) }
\* the forms sent to /register
RegisterForm(nombre, email, password) == [nombre |-> nombre, email |-> email, password |-> password]
RegisterForms ==
    { RegisterForm(Some(<<"B">>), Some(<<"b", "@", "x">>), Some("pw")),
      RegisterForm(Some(<<" ", "B", "b">>), Some(<<" ", "B", "@", "X", " ">>), Some("pw2")),
      RegisterForm(Some(<<"A">>), Some(AdminEmail), Some("pw")),
      RegisterForm(Some(<<" ">>), Some(<<"d", "@", "x">>), Some("pw")),
      RegisterForm(Some(<<"D">>), Some(<<"d", "@", "x">>), None) }
LoginFormsRegistro ==
    { LoginForm(Some(AdminEmail), Some(AdminPassword)),
      LoginForm(Some(<<"b", "@", "x">>), Some("pw")) }

\* the headers and the query strings sent to /api/tareas
ApiHeaders == {[X_API_Key |-> None], [X_API_Key |-> Some("")], [X_API_Key |-> Some("k")],
               [X_API_Key |-> Some("K")]}
ApiArgs ==
    { IndexArgs(None, None, None, None, None, None),
      IndexArgs(Some(<<"2">>), Some(<<"5">>), None, None, None, None),
      IndexArgs(Some(<<"a", "b", "c">>), None, None, None, None, None),
      IndexArgs(None, None, Some(<<"c","o","m","p","l","e","t","a","d","a">>), None, None, Some(<<"a">>)) }
ListadoArgsPlain == { IndexArgs(None, None, None, None, None, None) }

EstadosUrl == {"completada", "archivada"}
TareaIdsUrl == 1..MaxTareas

\* one request of each kind, its form and its environment drawn from the sets given
Login(Forms, E) ==
    /\ \E form \in Forms, env \in E : login("POST", form, env)
    /\ UNCHANGED running
LoginPage ==
    /\ login("GET", LoginForm(None, None), [conn |-> TRUE, audit |-> "ok", tick |-> TRUE])
    /\ UNCHANGED running
Logout(E) ==
    /\ \E env \in E : logout(env)
    /\ UNCHANGED running
Index(Args, E) ==
    /\ \E args \in Args, env \in E : index(args, env)
    /\ UNCHANGED running
RegisterSelect(Forms, E) ==
    \E t \in Threads, form \in Forms, env \in E : register_select(t, "POST", form, env)
RegisterPage == register_select(1, "GET", RegisterForm(None, None, None), [conn |-> TRUE])
RegisterInsert == \E t \in Threads : register_insert(t)
ApiTareas(Headers, Args, E) ==
    /\ \E headers \in Headers, args \in Args, env \in E : api_tareas(headers, args, env)
    /\ UNCHANGED running
TareaNueva(Forms, E) ==
    /\ \E form \in Forms, env \in E : tarea_nueva(form, env)
    /\ UNCHANGED running
TareaEditar(Tasks, Forms, E) ==
    /\ \E id \in Tasks, form \in Forms, env \in E : tarea_editar(id, form, env)
    /\ UNCHANGED running
TareaCambiarEstado(Tasks, EstadosReq, E) ==
    /\ \E id \in Tasks, estado \in EstadosReq, env \in E : tarea_cambiar_estado(id, estado, env)
    /\ UNCHANGED running
TareaEliminar(Tasks, E) ==
    /\ \E id \in Tasks, env \in E : tarea_eliminar(id, env)
    /\ UNCHANGED running
TareaAgregarTag(Tasks, Forms, E) ==
    /\ \E id \in Tasks, form \in Forms, env \in E : tarea_agregar_tag(id, form, env)
    /\ UNCHANGED running
TareaQuitarTag(Tasks, E) ==
    /\ \E id \in Tasks, tag_id \in 1..MaxTags, env \in E : tarea_quitar_tag(id, tag_id, env)
    /\ UNCHANGED running
TareaComentar(Tasks, Forms, E) ==
    /\ \E id \in Tasks, form \in Forms, env \in E : tarea_comentar(id, form, env)
    /\ UNCHANGED running
TareaAdjuntar(Tasks, Files, E) ==
    /\ \E id \in Tasks, archivo \in Files, env \in E : tarea_adjuntar(id, archivo, env)
    /\ UNCHANGED running

\* the plain forms: a right and a wrong login, a task with a title and nothing else
LoginFormsPlain ==
    { LoginForm(Some(AdminEmail), Some(AdminPassword)),
      LoginForm(Some(AdminEmail), Some("guess")) }
NuevaFormsPlain == { TareaForm(Some(<<"a">>), None, None, None, None, None) }
EditarFormsPlain == { TareaForm(None, None, Some("completada"), None, None, None) }
UploadsPlain == { Upload(<<"a", ".", "P", "D", "F">>, 3), Upload(<<"a", ".", "e", "x", "e">>, 3) }

NextTareas ==
    \/ Login(LoginFormsPlain, Envs)
    \/ Logout(Envs)
    \/ TareaNueva(NuevaForms, Envs)
    \/ TareaEditar(TareaIdsUrl, EditarForms, Envs)
    \/ TareaCambiarEstado(TareaIdsUrl, EstadosUrl, Envs)
    \/ TareaEliminar(TareaIdsUrl, Envs)

\* the task handlers, with every kind of form
SpecTareas == Init /\ [][NextTareas]_vars

NextEtiquetas ==
    \/ Login(LoginFormsPlain, Envs)
    \/ Logout(Envs)
    \/ TareaNueva(NuevaFormsPlain, Envs)
    \/ TareaEliminar(TareaIdsUrl, Envs)
    \/ TareaAgregarTag(TareaIdsUrl, TagForms, Envs)
    \/ TareaQuitarTag(TareaIdsUrl, Envs)

\* the tag handlers over tasks that come and go
SpecEtiquetas == Init /\ [][NextEtiquetas]_vars

NextAdjuntos ==
    \/ Login(LoginFormsPlain, Envs)
    \/ Logout(Envs)
    \/ TareaNueva(NuevaFormsPlain, Envs)
    \/ TareaEliminar(TareaIdsUrl, Envs)
    \/ TareaAdjuntar(TareaIdsUrl, Uploads, Envs)

\* the upload handler, with every kind of file name
SpecAdjuntos == Init /\ [][NextAdjuntos]_vars

\* A database that holds up to MaxListado tasks, inserted one by one by
\* tarea_nueva, each in its own second or two to a second.
TareaGuardada(id, dos_por_segundo) ==
    [id |-> id, titulo |-> IF id = 3 THEN <<"a", "b">> ELSE <<"a">>,
     descripcion |-> IF id = 3 THEN Some(<<"b", "c", "d">>) ELSE None,
     estado |-> IF id % 2 = 1 THEN "pendiente" ELSE "completada",
     prioridad |-> IF id = 3 THEN "alta" ELSE "media",
     fecha_creacion |-> IF dos_por_segundo THEN (id + 1) \div 2 ELSE id,
     fecha_vencimiento |-> None, creada_por |-> Some(1),
     asignada_a |-> IF id = 3 THEN Some(1) ELSE None]

InitListado ==
    /\ usuarios = {SeedAdmin}
    /\ tareas \in {{TareaGuardada(id, dos) : id \in 1..n} : n \in 0..MaxListado, dos \in BOOLEAN}
    /\ tareas_auto_inc = Cardinality(tareas) + 1
    /\ tags = {}
    /\ tags_auto_inc = 1
    /\ tarea_tags = {}
    /\ comentarios = {}
    /\ comentarios_auto_inc = 1
    /\ adjuntos = {}
    /\ adjuntos_auto_inc = 1
    /\ auditoria = <<>>
    /\ files = EmptyDict
    /\ session = EmptyDict
    /\ resp = NoResponse
    /\ outbox = {}
    /\ API_KEY = ""
    /\ pool_out = 0
    /\ requests = [t \in Threads |-> Idle]

NextListado ==
    \/ Login(LoginFormsPlain, EnvsAuditDown)
    \/ Logout(EnvsAuditDown)
    \/ TareaNueva(NuevaFormsPlain, EnvsAuditDown \cup EnvsMismoSegundo)
    \/ Index(ListadoArgs, Envs)

\* the listing over a database of up to MaxListado tasks
SpecListado == InitListado /\ [][NextListado]_vars

\* the same database behind a deployment with or without an API key
InitApi ==
    /\ usuarios = {SeedAdmin}
    /\ tareas \in {{TareaGuardada(id, dos) : id \in 1..n} : n \in 0..MaxListado, dos \in BOOLEAN}
    /\ tareas_auto_inc = Cardinality(tareas) + 1
    /\ tags = {}
    /\ tags_auto_inc = 1
    /\ tarea_tags = {}
    /\ comentarios = {}
    /\ comentarios_auto_inc = 1
    /\ adjuntos = {}
    /\ adjuntos_auto_inc = 1
    /\ auditoria = <<>>
    /\ files = EmptyDict
    /\ session = EmptyDict
    /\ resp = NoResponse
    /\ outbox = {}
    /\ API_KEY \in {"", "k"}
    /\ pool_out = 0
    /\ requests = [t \in Threads |-> Idle]

NextApi ==
    \/ Login(LoginFormsPlain, EnvsAuditDown)
    \/ Logout(EnvsAuditDown)
    \/ ApiTareas(ApiHeaders, ApiArgs, Envs)

\* the REST listing, with and without a configured key
SpecApi == InitApi /\ [][NextApi]_vars

NextRegistro ==
    \/ RegisterPage
    \/ RegisterSelect(RegisterForms, Envs)
    \/ RegisterInsert
    \/ Login(LoginFormsRegistro, Envs)
    \/ Logout(Envs)

\* accounts registered by requests that run at the same time
SpecRegistro == Init /\ [][NextRegistro]_vars

NextPool ==
    \/ \E t \in Threads, handler \in PoolHandlers, env \in Envs : handler_get_conn(t, handler, env)
    \/ \E t \in Threads, raises \in BOOLEAN : handler_cursor(t, raises)
    \/ \E t \in Threads, raises \in BOOLEAN : handler_execute(t, raises)
    \/ \E t \in Threads, env \in Envs : audit_get_conn(t, env)
    \/ \E t \in Threads, raises \in BOOLEAN : audit_cursor(t, raises)
    \/ \E t \in Threads, raises \in BOOLEAN : audit_execute(t, raises)
    \/ \E t \in Threads : audit_finally(t)
    \/ \E t \in Threads : handler_finally(t)

\* the pool under requests that run at the same time
SpecPool == Init /\ [][NextPool]_vars

Next ==
    \/ Login(LoginForms, EnvsAuditDown)
    \/ LoginPage
    \/ Logout(EnvsAuditDown)
    \/ TareaNueva(NuevaFormsPlain, EnvsAuditDown)
    \/ TareaEditar(TareaIdsUrl, EditarFormsPlain, EnvsAuditDown)
    \/ TareaCambiarEstado(TareaIdsUrl, {"completada"}, EnvsAuditDown)
    \/ TareaEliminar(TareaIdsUrl, EnvsAuditDown)
    \/ TareaAgregarTag(TareaIdsUrl, {[tag |-> Some(<<"a">>)]}, EnvsAuditDown)
    \/ TareaQuitarTag(TareaIdsUrl, EnvsAuditDown)
    \/ TareaComentar(TareaIdsUrl, ComentarioForms, EnvsAuditDown)
    \/ TareaAdjuntar(TareaIdsUrl, UploadsPlain, EnvsAuditDown)

\* every handler that writes, with plain forms, while the audit write is down
Spec == Init /\ [][Next]_vars

\* ------------------------------------------------------------------ claims

LoggedIn == Truthy(current_user_id(session))
IsBlank(s) == \A i \in DOMAIN s : IsSpace(s[i])
TituloEnviado(form) == Get(form.titulo, <<>>)

\* C1: after any sequence of task create and task edit requests, every stored
\* task has a non-empty title.
C1_TituloNoVacio == \A t \in tareas : t.titulo # <<>>

\* C3: a task-create request whose title is empty or only whitespace is rejected:
\* it inserts no task row, writes no audit entry, fires no webhook, and leaves the
\* set of stored tasks as it was (a logged-in user is told the title is required).
C3_TituloVacioRechazado ==
    [][\A form \in NuevaForms, env \in Envs :
          (IsBlank(TituloEnviado(form)) /\ tarea_nueva(form, env))
          => /\ tareas' = tareas
             /\ tareas_auto_inc' = tareas_auto_inc
             /\ auditoria' = auditoria
             /\ outbox' = {}
             /\ LoggedIn => resp' = redirect("index", "El titulo es obligatorio")]_vars

\* C3's case: a logged-in user's create request was turned down for its title
\* while tasks are stored
C3_Witness ==
    /\ LoggedIn
    /\ resp = redirect("index", "El titulo es obligatorio")
    /\ tareas # {}

\* the user a session belongs to: its id and email are those of an active user
SessionUser(ses) ==
    {u \in usuarios : /\ current_user_id(ses) = Some(u.id)
                      /\ session_get(ses, "user_email") = Some(u.email)
                      /\ u.activo = 1}

\* the form names an active user and gives that user's password
CredentialsOf(form, u) ==
    /\ u.activo = 1
    /\ u.email = Lower(Strip(Get(form.email, <<>>)))
    /\ u.password_hash = generate_password_hash(Get(form.password, ""))

LoginRedirect == redirect("login", "Debe iniciar sesion.")

\* some guarded handler that writes (task, tag, comment, attachment) takes this step
GuardedWrite ==
    \/ \E form \in NuevaFormsPlain, env \in EnvsAuditDown : tarea_nueva(form, env)
    \/ \E id \in TareaIdsUrl, form \in EditarFormsPlain, env \in EnvsAuditDown : tarea_editar(id, form, env)
    \/ \E id \in TareaIdsUrl, env \in EnvsAuditDown : tarea_cambiar_estado(id, "completada", env)
    \/ \E id \in TareaIdsUrl, env \in EnvsAuditDown : tarea_eliminar(id, env)
    \/ \E id \in TareaIdsUrl, env \in EnvsAuditDown : tarea_agregar_tag(id, [tag |-> Some(<<"a">>)], env)
    \/ \E id \in TareaIdsUrl, tag_id \in 1..MaxTags, env \in EnvsAuditDown : tarea_quitar_tag(id, tag_id, env)
    \/ \E id \in TareaIdsUrl, form \in ComentarioForms, env \in EnvsAuditDown : tarea_comentar(id, form, env)
    \/ \E id \in TareaIdsUrl, archivo \in UploadsPlain, env \in EnvsAuditDown : tarea_adjuntar(id, archivo, env)

\* C2: a guarded write request changes stored state only if the session holds a
\* user id that a successful login set (an active user's email and password) and
\* that no logout has cleared since; without it the handler body does not run and
\* the answer is the redirect to login.
C2_SoloConSesion ==
    [][/\ ~UNCHANGED stored => LoggedIn /\ SessionUser(session) # {}
       /\ (~LoggedIn /\ resp' # LoginRedirect) => ~GuardedWrite
       /\ (LoggedIn' /\ session' # session)
          => /\ \E form \in LoginForms, env \in EnvsAuditDown : login("POST", form, env)
             /\ \A form \in LoginForms, env \in EnvsAuditDown :
                  login("POST", form, env)
                  => \E u \in SessionUser(session') : CredentialsOf(form, u)
       /\ (\E env \in EnvsAuditDown : logout(env)) => ~LoggedIn']_vars

\* C2's case: with tasks stored and nobody logged in, a request was sent to login
C2_Witness ==
    /\ ~LoggedIn
    /\ resp = LoginRedirect
    /\ tareas # {}
    /\ comentarios # {}

\* C4: a request to set a task's status to a value outside {pendiente,
\* en_progreso, completada}, by the status-change endpoint or by the edit
\* endpoint, is rejected before any write: nothing stored changes, nothing is
\* notified, and a logged-in user is told the status is invalid.
C4_EstadoInvalidoRechazado ==
    [][/\ \A id \in TareaIdsUrl, estado \in EstadosUrl \ Estados, env \in Envs :
            tarea_cambiar_estado(id, estado, env)
            => /\ UNCHANGED stored
               /\ outbox' = {}
               /\ LoggedIn => resp' = redirect("tarea_detalle", "Estado invalido")
       /\ \A id \in TareaIdsUrl, form \in EditarForms, env \in Envs :
            (Get(form.estado, "pendiente") \notin Estados /\ tarea_editar(id, form, env))
            => /\ UNCHANGED stored
               /\ outbox' = {}
               /\ LoggedIn => resp' = redirect("tarea_detalle", "Estado invalido")]_vars

\* C4's case: an invalid status was turned down while a task is stored
C4_Witness ==
    /\ LoggedIn
    /\ resp = redirect("tarea_detalle", "Estado invalido")
    /\ tareas # {}

\* C5: when the audit write fails (no connection for it, or its INSERT raises),
\* the mutation that called it is committed all the same (the new task is
\* stored) and the request ends with its normal answer.
C5_AuditoriaNoBloquea ==
    [][~UNCHANGED tables =>
        /\ \A form \in NuevaForms, env \in Envs :
             (env.audit # "ok" /\ tarea_nueva(form, env))
             => /\ resp' = redirect("index", "Tarea creada")
                /\ \E t \in tareas' : /\ t.id = tareas_auto_inc
                                      /\ t \notin tareas
                                      /\ ~IsBlank(t.titulo)
                /\ auditoria' = auditoria
        /\ \A id \in TareaIdsUrl, form \in EditarForms, env \in Envs :
             (env.audit # "ok" /\ tarea_editar(id, form, env))
             => resp' = redirect("tarea_detalle", "Cambios guardados")
        /\ \A id \in TareaIdsUrl, estado \in EstadosUrl, env \in Envs :
             (env.audit # "ok" /\ tarea_cambiar_estado(id, estado, env))
             => resp' = redirect("tarea_detalle", "Estado actualizado")
        /\ \A id \in TareaIdsUrl, env \in Envs :
             (env.audit # "ok" /\ tarea_eliminar(id, env))
             => resp' = redirect("index", "Tarea eliminada")]_vars

\* C5's case: a task was created and answered as created while auditoria took
\* no row, neither for the login nor for the creation
C5_Witness ==
    /\ tareas # {}
    /\ auditoria = <<>>
    /\ resp = redirect("index", "Tarea creada")

\* no comment, attachment record or tag link of a task that is not stored
NoDangling ==
    /\ \A c \in comentarios : c.tarea_id \in TareaIds
    /\ \A a \in adjuntos : a.tarea_id \in TareaIds
    /\ \A l \in tarea_tags : l[1] \in TareaIds

\* C6: deleting a task removes in the same step every comment, attachment record
\* and tag link of it, so no comment, attachment record or tag link ever refers to
\* a task that is not stored; and an id once stored and deleted is never stored
\* again.
C6_BorradoEnCascada ==
    [][/\ NoDangling'
       /\ \A id \in TareaIds :
            id \notin TareaIds'
            => /\ \A c \in comentarios' : c.tarea_id # id
               /\ \A a \in adjuntos' : a.tarea_id # id
               /\ \A l \in tarea_tags' : l[1] # id
       /\ \A id \in 1..MaxTareas :
            (id < tareas_auto_inc /\ id \notin TareaIds) => id \notin TareaIds']_vars

\* C6's case: comments and attachment records were written and a tag was linked,
\* and the deletion of the last task has left none of them
C6_Witness ==
    /\ resp = redirect("index", "Tarea eliminada")
    /\ tareas = {} /\ tareas_auto_inc > 1
    /\ comentarios = {} /\ comentarios_auto_inc > 1
    /\ adjuntos = {} /\ adjuntos_auto_inc > 1
    /\ tarea_tags = {} /\ tags # {}

\* the name a tag form stands for
TagEnviado(form) == Lower(Strip(Get(form.tag, <<>>)))

\* C7: adding to a task a tag name it already carries (the two names may differ
\* by letter case or surrounding whitespace) is not an error and leaves the tag
\* rows and the link rows as they were: one tag row of that normalized name, one
\* link between that task and that tag.
C7_TagIdempotente ==
    [][/\ LoggedIn =>
            \A form \in TagForms :
              LET nombre == TagEnviado(form)
              IN  \A id \in TareaIdsUrl :
                    (\E t \in tags : t.nombre = nombre /\ <<id, t.id>> \in tarea_tags)
                    => \A env \in {e \in Envs : e.conn} :
                         tarea_agregar_tag(id, form, env)
                         => /\ resp' = redirect("tarea_detalle", "Tag agregado")
                            /\ tags' = tags
                            /\ tarea_tags' = tarea_tags
                            /\ Cardinality({t \in tags' : t.nombre = nombre}) = 1
                            /\ Cardinality({l \in tarea_tags' :
                                  /\ l[1] = id
                                  /\ \E t \in tags' : t.id = l[2] /\ t.nombre = nombre}) = 1
       /\ \A t1 \in tags', t2 \in tags' : t1.nombre = t2.nombre => t1 = t2]_vars

\* C7's case: the name was added to both tasks, in both spellings or not, and
\* there is one tag row of it, linked once to each task
C7_Witness ==
    /\ resp = redirect("tarea_detalle", "Tag agregado")
    /\ tags = {[id |-> 1, nombre |-> <<"a">>]}
    /\ tarea_tags = {<<1, 1>>, <<2, 1>>}

\* C8: removing a tag link that does not exist raises no error and leaves the
\* tasks, the tags and the tag links exactly as they were.
C8_QuitarInexistente ==
    [][\A id \in TareaIdsUrl, tag_id \in 1..MaxTags, env \in Envs :
          (<<id, tag_id>> \notin tarea_tags /\ tarea_quitar_tag(id, tag_id, env))
          => /\ UNCHANGED <<tareas, tags, tarea_tags>>
             /\ resp'.status = 302
             /\ (LoggedIn /\ env.conn) => resp' = redirect("tarea_detalle", "Tag quitado")]_vars

\* C8's case: a removal was answered as done while the only tag ever stored is
\* still linked to every task, so the link it named was not there
C8_Witness ==
    /\ resp = redirect("tarea_detalle", "Tag quitado")
    /\ tags = {[id |-> 1, nombre |-> <<"a">>]}
    /\ tags_auto_inc = 2
    /\ tarea_tags = {<<1, 1>>, <<2, 1>>}

\* the sanitized name has no extension, or one outside the allow-list
ExtensionRechazada(filename) ==
    \/ \A i \in DOMAIN filename : filename[i] # "."
    \/ \E i \in DOMAIN filename :
         /\ filename[i] = "."
         /\ \A j \in DOMAIN filename : j > i => filename[j] # "."
         /\ Lower(SubSeq(filename, i + 1, Len(filename))) \notin ALLOWED_EXT

\* the uploads the claim is about
UploadsRechazados ==
    {archivo \in Uploads \ {None} :
        /\ The(archivo).filename # <<>>
        /\ ExtensionRechazada(secure_filename(The(archivo).filename))}

\* C9: an upload whose sanitized file name has no extension, or an extension
\* outside the allow-list (compared without case), is rejected: no attachment
\* record is inserted and no file is written.
C9_ExtensionNoPermitida ==
    [][\A archivo \in UploadsRechazados, id \in TareaIdsUrl, env \in Envs :
          tarea_adjuntar(id, archivo, env)
          => /\ UNCHANGED <<adjuntos, adjuntos_auto_inc, files>>
             /\ LoggedIn => resp' = redirect("tarea_detalle", "Tipo de archivo no permitido")]_vars

\* C9's case: an upload was turned down for its type while files are on disk
C9_Witness ==
    /\ LoggedIn
    /\ resp = redirect("tarea_detalle", "Tipo de archivo no permitido")
    /\ DOMAIN files # {}

\* C10: when no pool connection is available, a mutating request (task create,
\* task delete, attachment upload) creates or changes no database row and no
\* file on disk.
C10_SinConexionSinCambios ==
    [][\A env \in {e \in Envs : ~e.conn} :
          /\ \A form \in NuevaFormsPlain : tarea_nueva(form, env) => UNCHANGED stored
          /\ \A id \in TareaIdsUrl, form \in EditarFormsPlain :
               tarea_editar(id, form, env) => UNCHANGED stored
          /\ \A id \in TareaIdsUrl, estado \in EstadosUrl :
               tarea_cambiar_estado(id, estado, env) => UNCHANGED stored
          /\ \A id \in TareaIdsUrl : tarea_eliminar(id, env) => UNCHANGED stored
          /\ \A id \in TareaIdsUrl, form \in TagForms :
               tarea_agregar_tag(id, form, env) => UNCHANGED stored
          /\ \A id \in TareaIdsUrl, tag_id \in 1..MaxTags :
               tarea_quitar_tag(id, tag_id, env) => UNCHANGED stored
          /\ \A id \in TareaIdsUrl, form \in ComentarioForms :
               tarea_comentar(id, form, env) => UNCHANGED stored
          /\ \A id \in TareaIdsUrl, archivo \in Uploads :
               tarea_adjuntar(id, archivo, env) => UNCHANGED stored]_vars

\* what a query string asks for: the page, the page size and the stored tasks
\* that pass its filter
PaginaPedida(args) ==
    LET page == The(int(args.page, 1))
    IN  IF page < 1 THEN 1 ELSE IF page > 10000 THEN 10000 ELSE page
TamanoPedido(args) ==
    LET per_page == The(int(args.per_page, 12))
    IN  IF per_page < 5 THEN 5 ELSE IF per_page > 100 THEN 100 ELSE per_page
Filtradas(args) ==
    Where(Strip(Get(args.estado, <<>>)), Strip(Get(args.prioridad, <<>>)),
          Strip(Get(args.asignada, <<>>)), Strip(Get(args.q, <<>>)))
FechaDe(id) == (CHOOSE t \in tareas : t.id = id).fecha_creacion

\* C11: for N stored tasks that pass the filter, the listing of page p with page
\* size s (p brought into 1..10000, s into 5..100) shows min(s, max(0, N-(p-1)*s))
\* of them, distinct, newest first, and the total N; a page past the last shows no
\* task and is no error.
C11_Paginacion ==
    [][LoggedIn =>
         \A args \in {a \in ListadoArgs : int(a.page, 1) # None /\ int(a.per_page, 12) # None} :
           \A env \in {e \in Envs : e.conn} :
             index(args, env)
             => LET N == Cardinality(Filtradas(args))
                    p == PaginaPedida(args)
                    s == TamanoPedido(args)
                    resto == IF N - (p - 1) * s < 0 THEN 0 ELSE N - (p - 1) * s
                    shown == resp'.tareas
                IN  /\ resp'.status = 200
                    /\ Len(shown) = IF s < resto THEN s ELSE resto
                    /\ resp'.total = N
                    /\ \A i \in DOMAIN shown : shown[i].id \in {t.id : t \in Filtradas(args)}
                    /\ \A i, j \in DOMAIN shown :
                         i < j => /\ shown[i].id # shown[j].id
                                  /\ FechaDe(shown[i].id) >= FechaDe(shown[j].id)]_vars

\* C11's case: six tasks stored, page 2 of size 5 shows the one that is left
C11_Witness ==
    /\ LoggedIn
    /\ Cardinality(tareas) = 6
    /\ resp.status = 200 /\ resp.location = "index.html" /\ resp.flash = ""
    /\ resp.page = 2 /\ resp.per_page = 5 /\ resp.total = 6
    /\ Len(resp.tareas) = 1

\* C12: creating a task with a title and no other field stores a task with
\* status pendiente and priority media, and the default listing (no filter,
\* page 1) read right after it shows that task as its first row.
C12_NuevaAlFrente ==
    [][LoggedIn =>
         /\ \A form \in NuevaFormsPlain, env \in {e \in Envs \cup EnvsMismoSegundo : e.conn} :
              tarea_nueva(form, env)
              => \E t \in tareas' \ tareas :
                   /\ t.id = tareas_auto_inc
                   /\ t.titulo = Strip(TituloEnviado(form))
                   /\ t.estado = "pendiente"
                   /\ t.prioridad = "media"
         /\ resp = redirect("index", "Tarea creada")
            => \A args \in ListadoArgsPlain, env \in {e \in Envs : e.conn} :
                 index(args, env)
                 => /\ resp'.tareas # <<>>
                    /\ resp'.tareas[1].id = tareas_auto_inc - 1]_vars

\* C13: the REST listing answers 401 exactly when an API key is configured and
\* the request's X-API-Key header is absent or differs from it; in every other
\* case it answers 200 with a JSON array; it never writes to the database.
C13_ApiKey ==
    [][\A headers \in ApiHeaders, args \in ApiArgs, env \in Envs :
          api_tareas(headers, args, env)
          => /\ resp'.status = 401 <=> (API_KEY # "" /\ headers.X_API_Key # Some(API_KEY))
             /\ resp'.status # 401 => (resp'.status = 200 /\ resp'.json.kind = "array")
             /\ UNCHANGED stored]_vars

\* the email each register form stands for
EmailEnviado == [form \in RegisterForms |-> Lower(Strip(Get(form.email, <<>>)))]

\* C14: register rejects an email that a stored user already has, so that after
\* any interleaving of register requests (two of them with the same email at the
\* same time included) no two user rows have the same email; every account that
\* register creates has role miembro.
C14_EmailUnico ==
    [][/\ \A u1 \in usuarios', u2 \in usuarios' : CollationEq(u1.email, u2.email) => u1 = u2
       /\ usuarios \subseteq usuarios'
       /\ \A u \in usuarios' \ usuarios :
            /\ u.rol = "miembro"
            /\ \A v \in usuarios : ~CollationEq(v.email, u.email)
       /\ \A form \in RegisterForms :
            (\E u \in usuarios : CollationEq(u.email, EmailEnviado[form]))
            => \A t \in Threads, env \in Envs :
                 register_select(t, "POST", form, env)
                 => /\ requests' = requests
                    /\ resp'.location = "register"]_vars

\* C14's case: two requests with one email passed the SELECT together; one
\* created the account, the other's INSERT was refused
C14_Witness ==
    /\ resp = InternalServerError
    /\ \A t \in Threads : requests[t] = Idle
    /\ \E u \in usuarios : u.email = <<"b", "@", "x">> /\ u.rol = "miembro"
    /\ Cardinality(usuarios) = 2

\* the connections a worker thread's request holds
Held(t) ==
    IF "conn" \notin DOMAIN requests[t] THEN 0
    ELSE (IF requests[t].conn THEN 1 ELSE 0) + (IF requests[t].aconn THEN 1 ELSE 0)

\* C15: when a handler has finished, on whatever exit path (return, early return,
\* an exception while creating a cursor or executing a statement), every pool
\* connection taken during the request, the one of audit() included, is back in
\* the pool: with no request in progress no connection is checked out.
C15_ConexionesDevueltas ==
    (\A t \in Threads : requests[t] = Idle) => pool_out = 0

\* C16: at every moment a request holds at most one connection of the pool of
\* ten; a handler that writes does not hold its own connection while the audit
\* write takes another.
C16_UnaConexionPorPeticion ==
    \A t \in Threads : Held(t) <= 1

\* one row was added to auditoria, and it names this entity (and this action)
Audited(acciones, entidad) ==
    /\ Len(auditoria') = Len(auditoria) + 1
    /\ SubSeq(auditoria', 1, Len(auditoria)) = auditoria
    /\ auditoria'[Len(auditoria')].accion \in acciones
    /\ auditoria'[Len(auditoria')].entidad = entidad
EnvsAuditOk == {e \in Envs : e.audit = "ok"}

\* C17: every handler that commits a mutation (registration, login, logout, task
\* create, edit, status change, delete, tag add, tag remove, comment, upload)
\* calls the audit write for it before it answers: when the audit write does
\* not fail, the step that commits the mutation adds one audit row that names
\* its action and its entity.
C17_MutacionAuditada ==
    [][/\ \A t \in Threads :
            (register_insert(t) /\ usuarios' # usuarios) => Audited({"register"}, "usuario")
       /\ \A env \in EnvsAuditOk :
            /\ \A form \in LoginFormsRegistro :
                 (login("POST", form, env) /\ resp'.location = "index")
                 => Audited({"login"}, "usuario")
            /\ (LoggedIn /\ logout(env)) => Audited({"logout"}, "usuario")
            /\ \A form \in NuevaFormsPlain :
                 (tarea_nueva(form, env) /\ tareas' # tareas) => Audited({"create"}, "tarea")
            /\ \A id \in TareaIdsUrl :
                 /\ \A form \in EditarFormsPlain :
                      (tarea_editar(id, form, env) /\ tareas' # tareas)
                      => Audited({"update"}, "tarea")
                 /\ \A estado \in EstadosUrl :
                      (tarea_cambiar_estado(id, estado, env) /\ tareas' # tareas)
                      => Audited({"status"}, "tarea")
                 /\ (tarea_eliminar(id, env) /\ tareas' # tareas) => Audited({"delete"}, "tarea")
                 /\ \A form \in TagForms :
                      (tarea_agregar_tag(id, form, env) /\ <<tags', tarea_tags'>> # <<tags, tarea_tags>>)
                      => Audited({"update"}, "tarea")
                 /\ \A tag_id \in 1..MaxTags :
                      (tarea_quitar_tag(id, tag_id, env) /\ tarea_tags' # tarea_tags)
                      => Audited({"update"}, "tarea")
                 /\ \A form \in ComentarioForms :
                      (tarea_comentar(id, form, env) /\ comentarios' # comentarios)
                      => Audited({"comment"}, "tarea")
                 /\ \A archivo \in UploadsPlain :
                      (tarea_adjuntar(id, archivo, env) /\ adjuntos' # adjuntos)
                      => Audited({"attach"}, "tarea")]_vars

=============================================================================
